---------------------------- MODULE Spec2Model ----------------------------
(***************************************************************************)
(* Marketplace backend: the listing lifecycle of a Product (purchase,      *)
(* confirm-purchase, cancel-purchase), the escrow lifecycle of an Order    *)
(* (create, ship, confirm-delivery, cancel), the product maintenance       *)
(* routes (update, delete, admin status), the reviews with the ratings     *)
(* aggregates they feed and the admin's deletions, over a document store;  *)
(* and the in-memory notification service.                                 *)
(*                                                                         *)
(* A handler is an async function: it runs from one await to the next      *)
(* without interruption.  Two views of the same handlers are given:        *)
(*   - requests served one after the other: each handler is one action     *)
(*     (NextFlow, NextReviews, Next);                                      *)
(*   - requests in flight together: a handler is one step per awaited      *)
(*     store operation, and steps of different requests interleave         *)
(*     (NextRace, NextOrderRace, NextReviewRace).                          *)
(* Request validation and the auth / role middleware are outside the       *)
(* handlers: every caller is an authenticated user with the role the       *)
(* route asks for.  A store operation that throws before the handler's     *)
(* first write changes nothing; the ones modelled are the throw of the     *)
(* second write of a handler that writes an Order and then its Product,    *)
(* and the throw of an aggregate write that follows a Review write.        *)
(***************************************************************************)
EXTENDS Integers, Sequences, FiniteSets, TLC

\* ------------------------------------------------------------------ bounds
NumUsers == 3
NumProducts == 2
MaxOrders == 2
NumReqs == 2
MaxReviews == 2
NumRatings == 2
MaxSent == 2
NumNamed == 1

Users == 1..NumUsers
ProductIds == 1..NumProducts
OrderIds == 1..MaxOrders
ReqIds == 1..NumReqs
ReviewIds == 1..MaxReviews

\* body('rating').isInt({ min: 1, max: 5 }): the highest NumRatings values
MaxRating == 5

Ratings == {x \in 1..MaxRating : x > MaxRating - NumRatings}

\* buyerId: { default: null }
NULL == 0

\* if (userNotifications.length > 100)
MaxPerUser == 100

VARIABLES products, orders, reviews, resp, reqs, productRatings, sellerRatings,
          users, notifications, sent

\* the ratings aggregates: ratings of a Product, ratings of a seller User
ratings == <<productRatings, sellerRatings>>

\* the notification store: the module's array, oldest first, and the
\* number of addNotification calls made since the initial state
inbox == <<notifications, sent>>

vars == <<products, orders, reviews, resp, reqs, productRatings, sellerRatings,
          users, notifications, sent>>

\* ------------------------------------------------------------------ schemas
ProductStatus == {"available", "sold", "pending"}

AdminProductStatus == {"available", "pending", "sold", "suspended"}

OrderStatus == {"pending", "confirmed", "shipped", "delivered", "completed", "cancelled", "disputed"}

PaymentStatus == {"pending", "escrowed", "released", "refunded"}

\* The price a listing is created with (price: Number(price)); a later
\* update may change it.
ListPrice(p) == 10 * p

Prices == {ListPrice(p) : p \in ProductIds}

\* new Product({..., sellerId: req.user._id}) with the schema defaults
NewProduct(seller, price) ==
    [exists |-> TRUE, sellerId |-> seller, status |-> "available",
     buyerId |-> NULL, price |-> price]

\* NewOrder with the price the Product was listed at as amount
NewOrderListPrice(p, prod, caller) ==
    [productId |-> p, buyerId |-> caller, sellerId |-> prod.sellerId,
     amount |-> ListPrice(p), status |-> "pending", paymentStatus |-> "escrowed"]

\* new Order({productId, buyerId, sellerId, amount, paymentStatus: 'escrowed'})
\* with the schema default status
NewOrder(p, prod, caller) ==
    [productId |-> p, buyerId |-> caller, sellerId |-> prod.sellerId,
     amount |-> prod.price, status |-> "pending", paymentStatus |-> "escrowed"]

\* ratings: { average: { default: 0 }, count: { default: 0 } }.  An average
\* is the quotient of two integers; it is kept as that quotient in lowest
\* terms, <<numerator, denominator>>, so that equal averages are equal values.
NoRatings == [average |-> <<0, 1>>, count |-> 0]

\* new Review({productId, userId: req.user._id, sellerId: product.sellerId, rating})
NewReview(id, p, prod, caller, rating) ==
    [id |-> id, productId |-> p, userId |-> caller, sellerId |-> prod.sellerId,
     rating |-> rating]

Reply(code, msg) == [code |-> code, msg |-> msg]

Resp(op, caller, id, r) ==
    [op |-> op, caller |-> caller, id |-> id, code |-> r.code, msg |-> r.msg]

NoResp == [op |-> "none", caller |-> NULL, id |-> 0, code |-> 0, msg |-> ""]

IdleReq == [op |-> "idle", caller |-> NULL, id |-> 0, pc |-> "idle",
            snap |-> NewProduct(NULL, 0), code |-> 0]

\* ------------------------------------------------------------------ Init
\* The store after the sellers have listed their products: product p was
\* created by one of the first p users, so that listings of one seller and
\* of different sellers both occur.
Init ==
    /\ products \in {f \in [ProductIds -> [exists : {TRUE}, sellerId : Users,
                                          status : {"available"}, buyerId : {NULL},
                                          price : Prices]] :
                        \A p \in ProductIds :
                            /\ f[p].sellerId <= p
                            /\ f[p].price = ListPrice(p)}
    /\ orders = <<>>
    /\ reviews = {}
    /\ resp = NoResp
    /\ reqs = [r \in ReqIds |-> IdleReq]
    /\ productRatings = [p \in ProductIds |-> NoRatings]
    /\ sellerRatings = [u \in Users |-> NoRatings]
    /\ users = Users
    /\ notifications = <<>>
    /\ sent = 0

\* The store after every listing has been purchased and the purchase
\* confirmed by a buyer who is not its seller (purchase, then
\* confirm-purchase): every Product is sold, and nothing is reviewed yet.
\* Product p was bought by one of the first p + 1 users, so that products
\* with one buyer and with different buyers both occur.
InitSold ==
    /\ products \in {f \in [ProductIds -> [exists : {TRUE}, sellerId : Users,
                                          status : {"sold"}, buyerId : Users,
                                          price : Prices]] :
                        \A p \in ProductIds :
                            /\ f[p].sellerId <= p
                            /\ f[p].buyerId # f[p].sellerId
                            /\ f[p].buyerId <= p + 1
                            /\ f[p].price = ListPrice(p)}
    /\ orders = <<>>
    /\ reviews = {}
    /\ resp = NoResp
    /\ reqs = [r \in ReqIds |-> IdleReq]
    /\ productRatings = [p \in ProductIds |-> NoRatings]
    /\ sellerRatings = [u \in Users |-> NoRatings]
    /\ users = Users
    /\ notifications = <<>>
    /\ sent = 0

\* ------------------------------------------------------------------ listing lifecycle
\* PurchaseReply without the availability check
PurchaseReplyAnyStatus(prod, caller) ==
    IF ~prod.exists THEN Reply(404, "Product not found")
    ELSE IF prod.sellerId = caller
        THEN Reply(400, "You cannot purchase your own product")
    ELSE Reply(200, "Purchase initiated. Product is now pending confirmation.")

\* POST /products/:id/purchase: the checks, in the handler's order
PurchaseReply(prod, caller) ==
    IF ~prod.exists THEN Reply(404, "Product not found")
    ELSE IF prod.status # "available"
        THEN Reply(400, "Product is not available for purchase")
    ELSE IF prod.sellerId = caller
        THEN Reply(400, "You cannot purchase your own product")
    ELSE Reply(200, "Purchase initiated. Product is now pending confirmation.")

\* product.status = 'pending'; product.buyerId = req.user._id; save()
PurchaseWrite(doc, caller) ==
    [doc EXCEPT !.status = "pending", !.buyerId = caller]

Purchase(caller, p) ==
    LET r == PurchaseReply(products[p], caller) IN
    /\ products' = IF r.code = 200
                   THEN [products EXCEPT ![p] = PurchaseWrite(products[p], caller)]
                   ELSE products
    /\ resp' = Resp("purchase", caller, p, r)
    /\ UNCHANGED <<orders, reviews, reqs, ratings, users, inbox>>

\* ConfirmPurchaseReply with the status check before the buyer check
ConfirmPurchaseReplyStatusFirst(prod, caller) ==
    IF ~prod.exists THEN Reply(404, "Product not found")
    ELSE IF prod.status # "pending"
        THEN Reply(400, "Product is not in pending status")
    ELSE IF prod.buyerId = NULL \/ prod.buyerId # caller
        THEN Reply(403, "Access denied. You are not the buyer.")
    ELSE Reply(200, "Purchase confirmed successfully. Product is now sold.")

\* POST /products/:id/confirm-purchase
ConfirmPurchaseReply(prod, caller) ==
    IF ~prod.exists THEN Reply(404, "Product not found")
    ELSE IF prod.buyerId = NULL \/ prod.buyerId # caller
        THEN Reply(403, "Access denied. You are not the buyer.")
    ELSE IF prod.status # "pending"
        THEN Reply(400, "Product is not in pending status")
    ELSE Reply(200, "Purchase confirmed successfully. Product is now sold.")

\* product.status = 'sold'; save()
ConfirmPurchaseWrite(doc) == [doc EXCEPT !.status = "sold"]

ConfirmPurchase(caller, p) ==
    LET r == ConfirmPurchaseReply(products[p], caller) IN
    /\ products' = IF r.code = 200
                   THEN [products EXCEPT ![p] = ConfirmPurchaseWrite(products[p])]
                   ELSE products
    /\ resp' = Resp("confirm-purchase", caller, p, r)
    /\ UNCHANGED <<orders, reviews, reqs, ratings, users, inbox>>

\* POST /products/:id/cancel-purchase
CancelPurchaseReply(prod, caller) ==
    LET isBuyer == prod.buyerId # NULL /\ prod.buyerId = caller
        isSeller == prod.sellerId = caller
    IN  IF ~prod.exists THEN Reply(404, "Product not found")
        ELSE IF ~isBuyer /\ ~isSeller THEN Reply(403, "Access denied.")
        ELSE IF prod.status # "pending"
            THEN Reply(400, "Product is not in pending status")
        ELSE Reply(200, "Purchase cancelled successfully. Product is now available again.")

\* CancelPurchaseWrite that forgets to clear the buyer
CancelPurchaseWriteKeepsBuyer(doc) == [doc EXCEPT !.status = "available"]

\* product.status = 'available'; product.buyerId = null; save()
CancelPurchaseWrite(doc) == [doc EXCEPT !.status = "available", !.buyerId = NULL]

CancelPurchase(caller, p) ==
    LET r == CancelPurchaseReply(products[p], caller) IN
    /\ products' = IF r.code = 200
                   THEN [products EXCEPT ![p] = CancelPurchaseWrite(products[p])]
                   ELSE products
    /\ resp' = Resp("cancel-purchase", caller, p, r)
    /\ UNCHANGED <<orders, reviews, reqs, ratings, users, inbox>>

\* ------------------------------------------------------------------ order lifecycle
ServerError == Reply(500, "Server error")

\* Product.findByIdAndUpdate(id, { status }): sets the one field of the
\* document with that id, and does nothing when there is none.
SetProductStatus(prods, p, status) ==
    IF prods[p].exists THEN [prods EXCEPT ![p].status = status] ELSE prods

\* POST /orders: the checks
CreateOrderReply(prod, caller) ==
    IF ~prod.exists THEN Reply(404, "Product not found")
    ELSE IF prod.status # "available" THEN Reply(400, "Product is not available")
    ELSE IF prod.sellerId = caller THEN Reply(400, "Cannot purchase your own product")
    ELSE Reply(201, "created")

\* POST /orders: order.save(), then Product.findByIdAndUpdate(productId,
\* { status: 'pending' }); dbFails: that second store operation throws.
CreateOrder(caller, p, dbFails) ==
    LET r == CreateOrderReply(products[p], caller) IN
    /\ r.code = 201 => Len(orders) < MaxOrders
    /\ dbFails => r.code = 201
    /\ orders' = IF r.code = 201
                 THEN Append(orders, NewOrder(p, products[p], caller))
                 ELSE orders
    /\ products' = IF r.code = 201 /\ ~dbFails
                   THEN SetProductStatus(products, p, "pending")
                   ELSE products
    /\ resp' = Resp("create-order", caller, p,
                    IF r.code = 201 /\ dbFails THEN ServerError ELSE r)
    /\ UNCHANGED <<reviews, reqs, ratings, users, inbox>>

OrderExists(o) == o \in 1..Len(orders)

\* ShipReply without the check that the caller is the seller
ShipReplyAnyCaller(found, order, caller) ==
    IF ~found THEN Reply(404, "Order not found")
    ELSE IF order.status # "confirmed"
        THEN Reply(400, "Order must be confirmed before shipping")
    ELSE Reply(200, "shipped")

\* ShipReply without the check that the order is confirmed
ShipReplyAnyStatus(found, order, caller) ==
    IF ~found THEN Reply(404, "Order not found")
    ELSE IF order.sellerId # caller THEN Reply(403, "Access denied")
    ELSE Reply(200, "shipped")

\* PUT /orders/:id/ship: the checks
ShipReply(found, order, caller) ==
    IF ~found THEN Reply(404, "Order not found")
    ELSE IF order.sellerId # caller THEN Reply(403, "Access denied")
    ELSE IF order.status # "confirmed"
        THEN Reply(400, "Order must be confirmed before shipping")
    ELSE Reply(200, "shipped")

AnyOrder == NewOrder(1, NewProduct(NULL, 0), NULL)

OrderDoc(o) == IF OrderExists(o) THEN orders[o] ELSE AnyOrder

Ship(caller, o) ==
    LET r == ShipReply(OrderExists(o), OrderDoc(o), caller) IN
    /\ orders' = IF r.code = 200
                 THEN [orders EXCEPT ![o].status = "shipped"]
                 ELSE orders
    /\ resp' = Resp("ship", caller, o, r)
    /\ UNCHANGED <<products, reviews, reqs, ratings, users, inbox>>

\* PUT /orders/:id/confirm-delivery: the checks
ConfirmDeliveryReply(found, order, caller) ==
    IF ~found THEN Reply(404, "Order not found")
    ELSE IF order.buyerId # caller THEN Reply(403, "Access denied")
    ELSE IF order.status # "shipped"
        THEN Reply(400, "Order must be shipped before delivery confirmation")
    ELSE Reply(200, "completed")

\* order.status = 'completed'; order.paymentStatus = 'released'; save();
\* then Product.findByIdAndUpdate(order.productId, { status: 'sold' })
ConfirmDelivery(caller, o, dbFails) ==
    LET r == ConfirmDeliveryReply(OrderExists(o), OrderDoc(o), caller) IN
    /\ dbFails => r.code = 200
    /\ orders' = IF r.code = 200
                 THEN [orders EXCEPT ![o].status = "completed",
                                     ![o].paymentStatus = "released"]
                 ELSE orders
    /\ products' = IF r.code = 200 /\ ~dbFails
                   THEN SetProductStatus(products, orders[o].productId, "sold")
                   ELSE products
    /\ resp' = Resp("confirm-delivery", caller, o,
                    IF r.code = 200 /\ dbFails THEN ServerError ELSE r)
    /\ UNCHANGED <<reviews, reqs, ratings, users, inbox>>

\* CancelOrderReply that refuses a cancelled order only
CancelOrderReplyCompleted(found, order, caller) ==
    LET canCancel == order.buyerId = caller \/ order.sellerId = caller IN
    IF ~found THEN Reply(404, "Order not found")
    ELSE IF ~canCancel THEN Reply(403, "Access denied")
    ELSE IF order.status = "cancelled" THEN Reply(400, "Cannot cancel this order")
    ELSE Reply(200, "cancelled")

\* PUT /orders/:id/cancel: the checks
CancelOrderReply(found, order, caller) ==
    LET canCancel == order.buyerId = caller \/ order.sellerId = caller IN
    IF ~found THEN Reply(404, "Order not found")
    ELSE IF ~canCancel THEN Reply(403, "Access denied")
    ELSE IF order.status \in {"completed", "cancelled"}
        THEN Reply(400, "Cannot cancel this order")
    ELSE Reply(200, "cancelled")

\* order.status = 'cancelled'; order.paymentStatus = 'refunded'; save();
\* then Product.findByIdAndUpdate(order.productId, { status: 'available' })
CancelOrder(caller, o, dbFails) ==
    LET r == CancelOrderReply(OrderExists(o), OrderDoc(o), caller) IN
    /\ dbFails => r.code = 200
    /\ orders' = IF r.code = 200
                 THEN [orders EXCEPT ![o].status = "cancelled",
                                     ![o].paymentStatus = "refunded"]
                 ELSE orders
    /\ products' = IF r.code = 200 /\ ~dbFails
                   THEN SetProductStatus(products, orders[o].productId, "available")
                   ELSE products
    /\ resp' = Resp("cancel-order", caller, o,
                    IF r.code = 200 /\ dbFails THEN ServerError ELSE r)
    /\ UNCHANGED <<reviews, reqs, ratings, users, inbox>>

\* ------------------------------------------------------------------ product maintenance
\* A request body of the update routes, one field at a time: the fields of
\* the Product schema that the listing lifecycle owns, and the price.
Bodies ==
    {[field |-> "none", value |-> NULL]}
      \cup {[field |-> "status", value |-> s] : s \in ProductStatus}
      \cup {[field |-> "buyerId", value |-> u] : u \in Users \cup {NULL}}
      \cup {[field |-> "price", value |-> x] : x \in Prices}

\* Product.findByIdAndDelete(id)
Deleted == [exists |-> FALSE, sellerId |-> NULL, status |-> "available",
            buyerId |-> NULL, price |-> 0]

\* PUT /products/:id: the checks
UpdateProductReply(prod, caller) ==
    IF ~prod.exists THEN Reply(404, "Product not found")
    ELSE IF prod.sellerId # caller
        THEN Reply(403, "Access denied. You are not the owner.")
    ELSE Reply(200, "Product updated successfully")

\* updateData = { ...req.body }; Product.findByIdAndUpdate(id, updateData,
\* { new: true, runValidators: true }): every schema field of the body is set.
UpdateProductWrite(doc, body) ==
    CASE body.field = "status" -> [doc EXCEPT !.status = body.value]
      [] body.field = "buyerId" -> [doc EXCEPT !.buyerId = body.value]
      [] body.field = "price" -> [doc EXCEPT !.price = body.value]
      [] OTHER -> doc

UpdateProduct(caller, p, body) ==
    LET r == UpdateProductReply(products[p], caller) IN
    /\ products' = IF r.code = 200
                   THEN [products EXCEPT ![p] = UpdateProductWrite(products[p], body)]
                   ELSE products
    /\ resp' = Resp("update-product", caller, p, r)
    /\ UNCHANGED <<orders, reviews, reqs, ratings, users, inbox>>

\* exports.updateProduct: the checks
UpdateProductCtlReply(prod, caller) ==
    IF ~prod.exists THEN Reply(404, "Product not found")
    ELSE IF prod.sellerId # caller THEN Reply(403, "Access denied")
    ELSE Reply(200, "updated")

\* const { title, description, price, category, status } = req.body; only
\* these reach the update.
UpdateProductCtlWrite(doc, body) ==
    CASE body.field = "status" -> [doc EXCEPT !.status = body.value]
      [] body.field = "price" -> [doc EXCEPT !.price = body.value]
      [] OTHER -> doc

UpdateProductCtl(caller, p, body) ==
    LET r == UpdateProductCtlReply(products[p], caller) IN
    /\ products' = IF r.code = 200
                   THEN [products EXCEPT ![p] = UpdateProductCtlWrite(products[p], body)]
                   ELSE products
    /\ resp' = Resp("update-product-ctl", caller, p, r)
    /\ UNCHANGED <<orders, reviews, reqs, ratings, users, inbox>>

\* DELETE /products/:id: the checks
DeleteProductReply(prod, caller) ==
    IF ~prod.exists THEN Reply(404, "Product not found")
    ELSE IF prod.sellerId # caller
        THEN Reply(403, "Access denied. You are not the owner.")
    ELSE IF prod.status = "sold" \/ prod.status = "pending"
        THEN Reply(400, "Cannot delete a sold or pending product")
    ELSE Reply(200, "Product deleted successfully")

DeleteProduct(caller, p) ==
    LET r == DeleteProductReply(products[p], caller) IN
    /\ products' = IF r.code = 200 THEN [products EXCEPT ![p] = Deleted] ELSE products
    /\ resp' = Resp("delete-product", caller, p, r)
    /\ UNCHANGED <<orders, reviews, reqs, ratings, users, inbox>>

\* exports.deleteProduct: the checks
DeleteProductCtlReply(prod, caller) ==
    IF ~prod.exists THEN Reply(404, "Product not found")
    ELSE IF prod.sellerId # caller THEN Reply(403, "Access denied")
    ELSE Reply(200, "Product deleted successfully")

DeleteProductCtl(caller, p) ==
    LET r == DeleteProductCtlReply(products[p], caller) IN
    /\ products' = IF r.code = 200 THEN [products EXCEPT ![p] = Deleted] ELSE products
    /\ resp' = Resp("delete-product-ctl", caller, p, r)
    /\ UNCHANGED <<orders, reviews, reqs, ratings, users, inbox>>

\* DELETE /admin/products/:id (the caller is an admin)
AdminDeleteProductReply(prod) ==
    IF ~prod.exists THEN Reply(404, "Product not found")
    ELSE Reply(200, "Product and associated reviews deleted successfully")

\* Review.deleteMany({ productId }); Product.findByIdAndDelete(id)
AdminDeleteProduct(p) ==
    LET r == AdminDeleteProductReply(products[p]) IN
    /\ reviews' = IF r.code = 200
                  THEN {rv \in reviews : rv.productId # p}
                  ELSE reviews
    /\ products' = IF r.code = 200 THEN [products EXCEPT ![p] = Deleted] ELSE products
    /\ resp' = Resp("admin-delete-product", NULL, p, r)
    /\ UNCHANGED <<orders, reqs, ratings, users, inbox>>

\* Product.deleteMany({ sellerId: userId })
DeleteProductsOf(prods, userId) ==
    [p \in ProductIds |->
        IF prods[p].exists /\ prods[p].sellerId = userId THEN Deleted ELSE prods[p]]

\* DELETE /users/:id and DELETE /admin/users/:id: the checks.  The caller
\* is an admin and the user named is a buyer or a seller, so the user is
\* neither the caller nor another admin.
DeleteUserReply(found) ==
    IF ~found THEN Reply(404, "User not found")
    ELSE Reply(200, "User and associated data deleted successfully")

\* DELETE /users/:id: Promise.all([Product.deleteMany({ sellerId }),
\* Review.deleteMany({ userId }), Review.deleteMany({ sellerId }),
\* User.findByIdAndDelete(userId)])
DeleteUser(userId) ==
    LET r == DeleteUserReply(userId \in users)
        gone == r.code = 200
    IN  /\ products' = IF gone THEN DeleteProductsOf(products, userId) ELSE products
        /\ reviews' = IF gone
                      THEN {rv \in reviews : rv.userId # userId /\ rv.sellerId # userId}
                      ELSE reviews
        /\ users' = users \ {userId}
        /\ resp' = Resp("delete-user", NULL, userId, r)
        /\ UNCHANGED <<orders, reqs, ratings, inbox>>

\* DELETE /admin/users/:id: Promise.all([Product.deleteMany({ sellerId }),
\* Review.deleteMany({ userId }), User.findByIdAndDelete(userId)])
AdminDeleteUser(userId) ==
    LET r == DeleteUserReply(userId \in users)
        gone == r.code = 200
    IN  /\ products' = IF gone THEN DeleteProductsOf(products, userId) ELSE products
        /\ reviews' = IF gone THEN {rv \in reviews : rv.userId # userId} ELSE reviews
        /\ users' = users \ {userId}
        /\ resp' = Resp("admin-delete-user", NULL, userId, r)
        /\ UNCHANGED <<orders, reqs, ratings, inbox>>

\* PUT /admin/products/:id/status (the caller is an admin)
AdminSetStatusReply(prod) ==
    IF ~prod.exists THEN Reply(404, "Product not found")
    ELSE Reply(200, "Product status updated successfully")

AdminSetStatus(p, status) ==
    LET r == AdminSetStatusReply(products[p]) IN
    /\ products' = SetProductStatus(products, p, status)
    /\ resp' = Resp("admin-set-status", NULL, p, r)
    /\ UNCHANGED <<orders, reviews, reqs, ratings, users, inbox>>

\* ------------------------------------------------------------------ reviews and ratings
RECURSIVE GCD(_, _)
GCD(a, b) == IF b = 0 THEN a ELSE GCD(b, a % b)

RECURSIVE TotalRating(_)
\* reviews.reduce((sum, review) => sum + review.rating, 0)
TotalRating(rs) ==
    IF rs = {} THEN 0
    ELSE LET rv == CHOOSE x \in rs : TRUE IN rv.rating + TotalRating(rs \ {rv})

\* reviews.length > 0 ? totalRating / reviews.length : 0
AverageRating(total, n) ==
    IF n > 0 THEN <<total \div GCD(total, n), n \div GCD(total, n)>> ELSE <<0, 1>>

\* the { 'ratings.average', 'ratings.count' } both helpers write
Aggregate(rs) ==
    [average |-> AverageRating(TotalRating(rs), Cardinality(rs)),
     count |-> Cardinality(rs)]

\* updateProductRatings(productId): Review.find({ productId }), then
\* Product.findByIdAndUpdate, which does nothing when the Product is gone
updateProductRatings(revs, prods, pr, p) ==
    IF prods[p].exists
    THEN [pr EXCEPT ![p] = Aggregate({rv \in revs : rv.productId = p})]
    ELSE pr

\* updateSellerRatings that looks the reviews up by their author
updateSellerRatingsByAuthor(revs, sr, s) ==
    [sr EXCEPT ![s] = Aggregate({rv \in revs : rv.userId = s})]

\* updateSellerRatings(sellerId): Review.find({ sellerId }), then
\* User.findByIdAndUpdate
updateSellerRatings(revs, sr, s) ==
    [sr EXCEPT ![s] = Aggregate({rv \in revs : rv.sellerId = s})]

\* Recompute that never starts the seller's recomputation
RecomputeProductOnly(revs, p, s, pFails, sFails) ==
    /\ productRatings' = IF pFails THEN productRatings
                         ELSE updateProductRatings(revs, products, productRatings, p)
    /\ sellerRatings' = sellerRatings

\* await Promise.all([updateProductRatings(p), updateSellerRatings(s)]) over
\* the review set revs; pFails, sFails: the store write of the one, of the
\* other, throws.  The two run independently, so one can be written while
\* the other is not.  User.findByIdAndUpdate does nothing when the User is
\* gone.
Recompute(revs, p, s, pFails, sFails) ==
    /\ productRatings' = IF pFails THEN productRatings
                         ELSE updateProductRatings(revs, products, productRatings, p)
    /\ sellerRatings' = IF sFails \/ s \notin users THEN sellerRatings
                        ELSE updateSellerRatings(revs, sellerRatings, s)

\* the id of a new Review: one that no stored Review has
FreshReviewId == CHOOSE i \in ReviewIds : \A rv \in reviews : rv.id # i

\* Review.findById(id)
ReviewExists(id) == \E rv \in reviews : rv.id = id

ReviewDoc(id) == CHOOSE rv \in reviews : rv.id = id

\* Review.findOne({ productId, userId })
HasReviewed(revs, p, caller) ==
    \E rv \in revs : rv.productId = p /\ rv.userId = caller

\* CreateReviewReply without the check for an earlier Review of the caller
CreateReviewReplyNoEarlier(prod, p, caller, revs) ==
    IF ~prod.exists THEN Reply(404, "Product not found")
    ELSE IF prod.buyerId = NULL \/ prod.buyerId # caller
        THEN Reply(403, "You can only review products you have purchased")
    ELSE IF prod.status # "sold"
        THEN Reply(400, "You can only review completed purchases")
    ELSE Reply(201, "Review created successfully")

\* CreateReviewReply without the check that the Product is sold
CreateReviewReplyAnyStatus(prod, p, caller, revs) ==
    IF ~prod.exists THEN Reply(404, "Product not found")
    ELSE IF prod.buyerId = NULL \/ prod.buyerId # caller
        THEN Reply(403, "You can only review products you have purchased")
    ELSE IF HasReviewed(revs, p, caller)
        THEN Reply(400, "You have already reviewed this product")
    ELSE Reply(201, "Review created successfully")

\* POST /reviews: the checks, in the handler's order
CreateReviewReply(prod, p, caller, revs) ==
    IF ~prod.exists THEN Reply(404, "Product not found")
    ELSE IF prod.buyerId = NULL \/ prod.buyerId # caller
        THEN Reply(403, "You can only review products you have purchased")
    ELSE IF prod.status # "sold"
        THEN Reply(400, "You can only review completed purchases")
    ELSE IF HasReviewed(revs, p, caller)
        THEN Reply(400, "You have already reviewed this product")
    ELSE Reply(201, "Review created successfully")

\* POST /reviews: review.save(), then both recomputations; a recomputation
\* that throws is answered with status 500 and the Review stays.
CreateReview(caller, p, rating, pFails, sFails) ==
    LET r == CreateReviewReply(products[p], p, caller, reviews)
        saved == r.code = 201
        revs == IF saved
                THEN reviews \cup {NewReview(FreshReviewId, p, products[p], caller, rating)}
                ELSE reviews
    IN  /\ saved => Cardinality(reviews) < MaxReviews
        /\ (pFails \/ sFails) => saved
        /\ reviews' = revs
        /\ IF saved
           THEN Recompute(revs, p, products[p].sellerId, pFails, sFails)
           ELSE UNCHANGED ratings
        /\ resp' = Resp("create-review", caller, p,
                        IF pFails \/ sFails
                        THEN Reply(500, "Server error creating review") ELSE r)
        /\ UNCHANGED <<products, orders, reqs, users, inbox>>

\* OwnReviewReply without the ownership check
OwnReviewReplyAnyCaller(found, review, caller, msg) ==
    IF ~found THEN Reply(404, "Review not found") ELSE Reply(200, msg)

\* PUT and DELETE /reviews/:id: the checks
OwnReviewReply(found, review, caller, msg) ==
    IF ~found THEN Reply(404, "Review not found")
    ELSE IF review.userId # caller
        THEN Reply(403, "Access denied. You are not the owner.")
    ELSE Reply(200, msg)

\* the Review a request names, when there is none
AnyReview == NewReview(0, 1, NewProduct(NULL, 0), NULL, 0)

\* PUT /reviews/:id; rating = NULL: the body has no rating (a comment only).
\* if (rating) updateData.rating = rating; Review.findByIdAndUpdate; then
\* if (rating) both recomputations.
UpdateReview(caller, id, rating, pFails, sFails) ==
    LET found == ReviewExists(id)
        review == IF found THEN ReviewDoc(id) ELSE AnyReview
        r == OwnReviewReply(found, review, caller, "Review updated successfully")
        rated == r.code = 200 /\ rating # NULL
        revs == IF rated
                THEN (reviews \ {review}) \cup {[review EXCEPT !.rating = rating]}
                ELSE reviews
    IN  /\ (pFails \/ sFails) => rated
        /\ reviews' = revs
        /\ IF rated
           THEN Recompute(revs, review.productId, review.sellerId, pFails, sFails)
           ELSE UNCHANGED ratings
        /\ resp' = Resp("update-review", caller, id,
                        IF pFails \/ sFails
                        THEN Reply(500, "Server error updating review") ELSE r)
        /\ UNCHANGED <<products, orders, reqs, users, inbox>>

\* DELETE /reviews/:id: Review.findByIdAndDelete, then both recomputations
DeleteReview(caller, id, pFails, sFails) ==
    LET found == ReviewExists(id)
        review == IF found THEN ReviewDoc(id) ELSE AnyReview
        r == OwnReviewReply(found, review, caller, "Review deleted successfully")
        gone == r.code = 200
        revs == IF gone THEN reviews \ {review} ELSE reviews
    IN  /\ (pFails \/ sFails) => gone
        /\ reviews' = revs
        /\ IF gone
           THEN Recompute(revs, review.productId, review.sellerId, pFails, sFails)
           ELSE UNCHANGED ratings
        /\ resp' = Resp("delete-review", caller, id,
                        IF pFails \/ sFails
                        THEN Reply(500, "Server error deleting review") ELSE r)
        /\ UNCHANGED <<products, orders, reqs, users, inbox>>

\* DELETE /admin/reviews/:id (the caller is an admin, who is none of the
\* buyers and sellers): the checks
AdminDeleteReviewReply(found) ==
    IF ~found THEN Reply(404, "Review not found")
    ELSE Reply(200, "Review deleted successfully")

AdminDeleteReview(id, pFails, sFails) ==
    LET found == ReviewExists(id)
        review == IF found THEN ReviewDoc(id) ELSE AnyReview
        r == AdminDeleteReviewReply(found)
        gone == r.code = 200
        revs == IF gone THEN reviews \ {review} ELSE reviews
    IN  /\ (pFails \/ sFails) => gone
        /\ reviews' = revs
        /\ IF gone
           THEN Recompute(revs, review.productId, review.sellerId, pFails, sFails)
           ELSE UNCHANGED ratings
        /\ resp' = Resp("admin-delete-review", NULL, id,
                        IF pFails \/ sFails
                        THEN Reply(500, "Server error deleting review") ELSE r)
        /\ UNCHANGED <<products, orders, reqs, users, inbox>>

\* ------------------------------------------------------------------ notifications
\* { id, userId, message, type, read: false, createdAt }: the fields the
\* service looks at
NewNotification(id, userId) == [id |-> id, userId |-> userId, read |-> FALSE]

\* notifications.filter(n => n.userId === userId)
OfUser(ns, userId) == SelectSeq(ns, LAMBDA n : n.userId = userId)

RECURSIVE RemoveOldest(_, _, _)
\* toRemove = userNotifications.slice(0, k); toRemove.forEach(notif =>
\* notifications.splice(notifications.indexOf(notif), 1)): the first k
\* notifications of the user leave the array
RemoveOldest(ns, userId, k) ==
    IF k = 0 \/ ns = <<>> THEN ns
    ELSE IF Head(ns).userId = userId THEN RemoveOldest(Tail(ns), userId, k - 1)
    ELSE <<Head(ns)>> \o RemoveOldest(Tail(ns), userId, k)

\* addNotification without the removal of the oldest
addNotificationKeepAll(ns, n) == Append(ns, n)

\* NotificationService.addNotification: notifications.push(notification),
\* then keep the last 100 of that user
addNotification(ns, n) ==
    LET pushed == Append(ns, n)
        count == Len(OfUser(pushed, n.userId))
    IN  IF count > MaxPerUser
        THEN RemoveOldest(pushed, n.userId, count - MaxPerUser)
        ELSE pushed

\* Date.now().toString(): the clock does not run backwards, and two calls
\* within one millisecond read the same value.  The last notification
\* pushed is the last of the array.
Now ==
    IF notifications = <<>> THEN {1}
    ELSE LET last == notifications[Len(notifications)].id IN {last, last + 1}

\* a call of addNotification(userId, ...) at time t; it returns the
\* notification
AddNotification(userId, t) ==
    /\ sent < MaxSent
    /\ t \in Now
    /\ notifications' = addNotification(notifications, NewNotification(t, userId))
    /\ sent' = sent + 1
    /\ resp' = Resp("add-notification", userId, t, Reply(0, ""))
    /\ UNCHANGED <<products, orders, reviews, reqs, ratings, users>>

\* FindNotification that does not look at the userId
FindNotificationAnyUser(ns, userId, id) ==
    LET hits == {i \in 1..Len(ns) : ns[i].id = id}
    IN  IF hits = {} THEN 0 ELSE CHOOSE i \in hits : \A j \in hits : i <= j

\* notifications.find(n => n.id === notificationId && n.userId === userId):
\* the index of the first such notification, 0 when there is none
FindNotification(ns, userId, id) ==
    LET hits == {i \in 1..Len(ns) : ns[i].id = id /\ ns[i].userId = userId}
    IN  IF hits = {} THEN 0 ELSE CHOOSE i \in hits : \A j \in hits : i <= j

\* NotificationService.markAsRead(userId, notificationId): the store after
\* the call
markAsRead(ns, userId, id) ==
    LET i == FindNotification(ns, userId, id) IN
    IF i = 0 THEN ns ELSE [ns EXCEPT ![i].read = TRUE]

\* PUT /notifications/:id/read
MarkAsRead(caller, id) ==
    LET success == FindNotification(notifications, caller, id) # 0 IN
    /\ notifications' = markAsRead(notifications, caller, id)
    /\ resp' = Resp("mark-read", caller, id,
                    IF success THEN Reply(200, "Notification marked as read")
                    ELSE Reply(404, "Notification not found"))
    /\ UNCHANGED <<products, orders, reviews, reqs, ratings, users, sent>>

\* NotificationService.markAllAsRead(userId)
markAllAsRead(ns, userId) ==
    [i \in 1..Len(ns) |->
        IF ns[i].userId = userId THEN [ns[i] EXCEPT !.read = TRUE] ELSE ns[i]]

\* PUT /notifications/mark-all-read
MarkAllAsRead(caller) ==
    /\ notifications' = markAllAsRead(notifications, caller)
    /\ resp' = Resp("mark-all-read", caller, 0,
                    Reply(200, "All notifications marked as read"))
    /\ UNCHANGED <<products, orders, reviews, reqs, ratings, users, sent>>

\* The store after the users have been notified in turn, n times each, a
\* millisecond apart, and have read nothing.
Backlog(n) ==
    [i \in 1..(n * NumUsers) |-> NewNotification(i, ((i - 1) % NumUsers) + 1)]

\* The notification service before its first call, and when every user is
\* one notification short of the limit.
InitInbox ==
    /\ products \in {f \in [ProductIds -> [exists : {TRUE}, sellerId : Users,
                                          status : {"available"}, buyerId : {NULL},
                                          price : Prices]] :
                        \A p \in ProductIds :
                            /\ f[p].sellerId = 1
                            /\ f[p].price = ListPrice(p)}
    /\ orders = <<>>
    /\ reviews = {}
    /\ resp = NoResp
    /\ reqs = [r \in ReqIds |-> IdleReq]
    /\ productRatings = [p \in ProductIds |-> NoRatings]
    /\ sellerRatings = [u \in Users |-> NoRatings]
    /\ users = Users
    /\ notifications \in {Backlog(0), Backlog(MaxPerUser - 1)}
    /\ sent = 0

\* the ids a request names: one that no notification has, and those of the
\* NumNamed newest notifications
NamedIds ==
    {0} \cup {notifications[i].id :
                i \in {j \in 1..Len(notifications) : j > Len(notifications) - NumNamed}}

\* The step from pending to confirmed of the order lifecycle
\* (pending -> confirmed -> shipped -> completed).  No route of the
\* repository performs it; it is taken here as the step of an outside
\* party so that the ship and confirm-delivery handlers can be exercised.
Confirm(o) ==
    /\ OrderExists(o)
    /\ orders[o].status = "pending"
    /\ orders' = [orders EXCEPT ![o].status = "confirmed"]
    /\ resp' = Resp("confirm", NULL, o, Reply(200, "confirmed"))
    /\ UNCHANGED <<products, reviews, reqs, ratings, users, inbox>>

\* ------------------------------------------------------------------ requests in flight
\* A commit request (purchase, order create) as the steps between its
\* awaits.  reqs[r].snap is the document findById returned; the checks run
\* on it when the handler resumes, and the write reaches the store in a
\* later step.

\* await Product.findById(id)
StartCommit(r, op, caller, p) ==
    /\ reqs[r].pc = "idle"
    /\ reqs' = [reqs EXCEPT ![r] = [op |-> op, caller |-> caller, id |-> p,
                                    pc |-> "read", snap |-> products[p], code |-> 0]]
    /\ UNCHANGED <<products, orders, reviews, resp, ratings, users, inbox>>

\* purchase: the checks on the document read, then await product.save(),
\* which sets the modified paths (status, buyerId) of the stored document.
PurchaseCommit(r) ==
    LET q == reqs[r]
        rep == PurchaseReply(q.snap, q.caller)
    IN  /\ q.pc = "read"
        /\ q.op = "purchase"
        /\ products' = IF rep.code = 200
                       THEN [products EXCEPT ![q.id] = PurchaseWrite(products[q.id], q.caller)]
                       ELSE products
        /\ reqs' = [reqs EXCEPT ![r].pc = "done", ![r].code = rep.code]
        /\ UNCHANGED <<orders, reviews, resp, ratings, users, inbox>>

\* order create: the checks on the document read, then await order.save()
CreateOrderSave(r) ==
    LET q == reqs[r]
        rep == CreateOrderReply(q.snap, q.caller)
    IN  /\ q.pc = "read"
        /\ q.op = "create-order"
        /\ rep.code = 201 => Len(orders) < MaxOrders
        /\ orders' = IF rep.code = 201
                     THEN Append(orders, NewOrder(q.id, q.snap, q.caller))
                     ELSE orders
        /\ reqs' = IF rep.code = 201
                   THEN [reqs EXCEPT ![r].pc = "saved"]
                   ELSE [reqs EXCEPT ![r].pc = "done", ![r].code = rep.code]
        /\ UNCHANGED <<products, reviews, resp, ratings, users, inbox>>

\* order create: await Product.findByIdAndUpdate(productId, { status: 'pending' })
CreateOrderMark(r, dbFails) ==
    LET q == reqs[r] IN
    /\ q.pc = "saved"
    /\ products' = IF dbFails THEN products
                   ELSE SetProductStatus(products, q.id, "pending")
    /\ reqs' = [reqs EXCEPT ![r].pc = "done",
                            ![r].code = IF dbFails THEN 500 ELSE 201]
    /\ UNCHANGED <<orders, reviews, resp, ratings, users, inbox>>

\* An order request (ship, confirm-delivery, cancel) as the steps between
\* its awaits.  The handler's checks run on the document Order.findById
\* returned, with no await in between: the read and the checks are one step.
\* reqs[r].snap is that document, kept while the handler goes on.
OrderOps == {"ship", "confirm-delivery", "cancel-order"}

\* the checks of the three handlers
OrderReply(op, found, order, caller) ==
    CASE op = "ship" -> ShipReply(found, order, caller)
      [] op = "confirm-delivery" -> ConfirmDeliveryReply(found, order, caller)
      [] OTHER -> CancelOrderReply(found, order, caller)

\* await Order.findById(req.params.id), then the checks: a request that
\* fails one returns at once.  The requests are numbered in the order of
\* their reads.
StartOrderReq(r, op, caller, o) ==
    LET rep == OrderReply(op, OrderExists(o), OrderDoc(o), caller) IN
    /\ reqs[r].pc = "idle"
    /\ \A r2 \in ReqIds : r2 < r => reqs[r2].pc # "idle"
    /\ reqs' = [reqs EXCEPT ![r] =
                    IF rep.code = 200
                    THEN [op |-> op, caller |-> caller, id |-> o, pc |-> "checked",
                          snap |-> OrderDoc(o), code |-> 0]
                    ELSE [op |-> op, caller |-> caller, id |-> o, pc |-> "done",
                          snap |-> IdleReq.snap, code |-> rep.code]]
    /\ UNCHANGED <<products, orders, reviews, resp, ratings, users, inbox>>

\* order.save(): the paths the handler assigned are set on the stored
\* document (status for ship; status and paymentStatus for the other two),
\* whatever it holds by then.
OrderWrite(op, doc) ==
    CASE op = "ship" -> [doc EXCEPT !.status = "shipped"]
      [] op = "confirm-delivery" ->
            [doc EXCEPT !.status = "completed", !.paymentStatus = "released"]
      [] OTHER -> [doc EXCEPT !.status = "cancelled", !.paymentStatus = "refunded"]

\* await order.save(); ship returns after it
OrderSave(r) ==
    LET q == reqs[r] IN
    /\ q.pc = "checked"
    /\ orders' = [orders EXCEPT ![q.id] = OrderWrite(q.op, orders[q.id])]
    /\ reqs' = IF q.op = "ship"
               THEN [reqs EXCEPT ![r].pc = "done", ![r].code = 200,
                                 ![r].snap = IdleReq.snap]
               ELSE [reqs EXCEPT ![r].pc = "saved"]
    /\ UNCHANGED <<products, reviews, resp, ratings, users, inbox>>

\* confirm-delivery, cancel: await Product.findByIdAndUpdate(order.productId,
\* { status }); dbFails: it throws.
OrderMirror(r, dbFails) ==
    LET q == reqs[r] IN
    /\ q.pc = "saved"
    /\ q.op \in {"confirm-delivery", "cancel-order"}
    /\ products' = IF dbFails THEN products
                   ELSE SetProductStatus(products, q.snap.productId,
                                         IF q.op = "cancel-order" THEN "available"
                                         ELSE "sold")
    /\ reqs' = [reqs EXCEPT ![r].pc = "done",
                            ![r].code = IF dbFails THEN 500 ELSE 200,
                            ![r].snap = IdleReq.snap]
    /\ UNCHANGED <<orders, reviews, resp, ratings, users, inbox>>

\* A review request (create, rating update, delete) as the steps between
\* its awaits, from the Review write on.  The two recomputations of
\* Promise.all run side by side; each is a Review.find, whose result the
\* helper reduces, and a findByIdAndUpdate in a later step.  reqs[r].snap
\* holds the ids the helpers were called with and, per helper, where it
\* stands and the aggregate it has computed.
\* the checks of the three handlers; id names a Product for create and a
\* Review for the other two
ReviewReply(op, caller, id) ==
    LET found == ReviewExists(id)
        review == IF found THEN ReviewDoc(id) ELSE AnyReview
    IN  CASE op = "create-review" ->
                 IF id \in ProductIds
                 THEN CreateReviewReply(products[id], id, caller, reviews)
                 ELSE Reply(404, "Product not found")
          [] op = "update-review" ->
                 OwnReviewReply(found, review, caller, "Review updated successfully")
          [] OTHER ->
                 OwnReviewReply(found, review, caller, "Review deleted successfully")

\* the Review set after the handler's write: review.save(),
\* Review.findByIdAndUpdate(id, { rating }), Review.findByIdAndDelete(id)
ReviewWrite(op, caller, id, rating) ==
    CASE op = "create-review" ->
             reviews \cup {NewReview(FreshReviewId, id, products[id], caller, rating)}
      [] op = "update-review" ->
             (reviews \ {ReviewDoc(id)}) \cup {[ReviewDoc(id) EXCEPT !.rating = rating]}
      [] OTHER -> reviews \ {ReviewDoc(id)}

\* what the helpers are called with: (productId, product.sellerId) for
\* create, (review.productId, review.sellerId) for the other two
ReviewTarget(op, id) ==
    IF op = "create-review"
    THEN [productId |-> id, sellerId |-> products[id].sellerId]
    ELSE [productId |-> ReviewDoc(id).productId, sellerId |-> ReviewDoc(id).sellerId]

\* the checks and the Review write.  A request that fails a check returns
\* at once.  The requests are numbered in the order of their writes.
StartReviewReq(r, op, caller, id, rating) ==
    LET rep == ReviewReply(op, caller, id)
        ok == rep.code \in {200, 201}
    IN  /\ reqs[r].pc = "idle"
        /\ \A r2 \in ReqIds : r2 < r => reqs[r2].pc # "idle"
        /\ (ok /\ op = "create-review") => Cardinality(reviews) < MaxReviews
        /\ reviews' = IF ok THEN ReviewWrite(op, caller, id, rating) ELSE reviews
        /\ reqs' = [reqs EXCEPT ![r] =
                        IF ok
                        THEN [op |-> op, caller |-> caller, id |-> id, pc |-> "written",
                              snap |-> [productId |-> ReviewTarget(op, id).productId,
                                        sellerId |-> ReviewTarget(op, id).sellerId,
                                        product |-> "find", productRatings |-> NoRatings,
                                        seller |-> "find", sellerRatings |-> NoRatings],
                              code |-> 0]
                        ELSE [op |-> op, caller |-> caller, id |-> id, pc |-> "done",
                              snap |-> IdleReq.snap, code |-> rep.code]]
        /\ UNCHANGED <<products, orders, resp, ratings, users, inbox>>

\* updateProductRatings: await Review.find({ productId }), and the reduce
ProductRatingsFind(r) ==
    LET q == reqs[r] IN
    /\ q.pc = "written"
    /\ q.snap.product = "find"
    /\ reqs' = [reqs EXCEPT
                   ![r].snap.product = "update",
                   ![r].snap.productRatings =
                       Aggregate({rv \in reviews : rv.productId = q.snap.productId})]
    /\ UNCHANGED <<products, orders, reviews, resp, ratings, users, inbox>>

\* updateSellerRatings: await Review.find({ sellerId }), and the reduce
SellerRatingsFind(r) ==
    LET q == reqs[r] IN
    /\ q.pc = "written"
    /\ q.snap.seller = "find"
    /\ reqs' = [reqs EXCEPT
                   ![r].snap.seller = "update",
                   ![r].snap.sellerRatings =
                       Aggregate({rv \in reviews : rv.sellerId = q.snap.sellerId})]
    /\ UNCHANGED <<products, orders, reviews, resp, ratings, users, inbox>>

\* the request after one of its helpers has returned: the handler answers
\* when both have
HelperDone(q, helper) ==
    LET other == IF helper = "product" THEN q.snap.seller ELSE q.snap.product IN
    IF other = "done"
    THEN [q EXCEPT !.pc = "done", !.snap = IdleReq.snap,
                   !.code = IF q.op = "create-review" THEN 201 ELSE 200]
    ELSE IF helper = "product" THEN [q EXCEPT !.snap.product = "done"]
    ELSE [q EXCEPT !.snap.seller = "done"]

\* updateProductRatings: await Product.findByIdAndUpdate(productId, {
\* 'ratings.average', 'ratings.count' }) with what the helper computed
ProductRatingsUpdate(r) ==
    LET q == reqs[r] IN
    /\ q.pc = "written"
    /\ q.snap.product = "update"
    /\ productRatings' = IF products[q.snap.productId].exists
                         THEN [productRatings EXCEPT
                                  ![q.snap.productId] = q.snap.productRatings]
                         ELSE productRatings
    /\ reqs' = [reqs EXCEPT ![r] = HelperDone(q, "product")]
    /\ UNCHANGED <<products, orders, reviews, resp, sellerRatings, users, inbox>>

\* updateSellerRatings: await User.findByIdAndUpdate(sellerId, {...})
SellerRatingsUpdate(r) ==
    LET q == reqs[r] IN
    /\ q.pc = "written"
    /\ q.snap.seller = "update"
    /\ sellerRatings' = [sellerRatings EXCEPT
                            ![q.snap.sellerId] = q.snap.sellerRatings]
    /\ reqs' = [reqs EXCEPT ![r] = HelperDone(q, "seller")]
    /\ UNCHANGED <<products, orders, reviews, resp, productRatings, users, inbox>>

\* ------------------------------------------------------------------ specifications
\* The listing and order operations, one request at a time.
NextFlow ==
    \/ \E u \in Users, p \in ProductIds : Purchase(u, p)
    \/ \E u \in Users, p \in ProductIds : ConfirmPurchase(u, p)
    \/ \E u \in Users, p \in ProductIds : CancelPurchase(u, p)
    \/ \E u \in Users, p \in ProductIds, f \in BOOLEAN : CreateOrder(u, p, f)
    \/ \E u \in Users, o \in OrderIds : Ship(u, o)
    \/ \E u \in Users, o \in OrderIds, f \in BOOLEAN : ConfirmDelivery(u, o, f)
    \/ \E u \in Users, o \in OrderIds, f \in BOOLEAN : CancelOrder(u, o, f)

SpecFlow == Init /\ [][NextFlow]_vars

\* The listing and order operations over a store that never throws.
NextReliable ==
    \/ \E u \in Users, p \in ProductIds : Purchase(u, p)
    \/ \E u \in Users, p \in ProductIds : ConfirmPurchase(u, p)
    \/ \E u \in Users, p \in ProductIds : CancelPurchase(u, p)
    \/ \E u \in Users, p \in ProductIds : CreateOrder(u, p, FALSE)
    \/ \E u \in Users, o \in OrderIds : Ship(u, o)
    \/ \E u \in Users, o \in OrderIds : ConfirmDelivery(u, o, FALSE)
    \/ \E u \in Users, o \in OrderIds : CancelOrder(u, o, FALSE)

SpecReliable == Init /\ [][NextReliable]_vars

\* The order operations with the confirmation step supplied from outside.
NextOrders ==
    \/ \E u \in Users, p \in ProductIds, f \in BOOLEAN : CreateOrder(u, p, f)
    \/ \E u \in Users, o \in OrderIds : Ship(u, o)
    \/ \E u \in Users, o \in OrderIds, f \in BOOLEAN : ConfirmDelivery(u, o, f)
    \/ \E u \in Users, o \in OrderIds, f \in BOOLEAN : CancelOrder(u, o, f)
    \/ \E o \in OrderIds : Confirm(o)

SpecEscrow == Init /\ [][NextOrders]_vars

\* The listing operations and the routes that delete a product.
NextListing ==
    \/ \E u \in Users, p \in ProductIds : Purchase(u, p)
    \/ \E u \in Users, p \in ProductIds : ConfirmPurchase(u, p)
    \/ \E u \in Users, p \in ProductIds : CancelPurchase(u, p)

NextDelete ==
    \/ \E u \in Users, p \in ProductIds : DeleteProduct(u, p)
    \/ \E u \in Users, p \in ProductIds : DeleteProductCtl(u, p)
    \/ \E p \in ProductIds : AdminDeleteProduct(p)

NextUpdate ==
    \/ \E u \in Users, p \in ProductIds, b \in Bodies : UpdateProduct(u, p, b)
    \/ \E u \in Users, p \in ProductIds, b \in Bodies : UpdateProductCtl(u, p, b)
    \/ \E p \in ProductIds, s \in AdminProductStatus : AdminSetStatus(p, s)

SpecDelete == Init /\ [][NextListing \/ NextDelete]_vars

SpecUpdate == Init /\ [][NextListing \/ NextUpdate]_vars

SpecCatalog == Init /\ [][NextListing \/ NextDelete \/ NextUpdate]_vars

\* The listing and review operations, one request at a time, over a store
\* that never throws.
NextReviews ==
    \/ \E u \in Users, p \in ProductIds : Purchase(u, p)
    \/ \E u \in Users, p \in ProductIds : ConfirmPurchase(u, p)
    \/ \E u \in Users, p \in ProductIds : CancelPurchase(u, p)
    \/ \E u \in Users, p \in ProductIds, x \in Ratings : CreateReview(u, p, x, FALSE, FALSE)
    \/ \E u \in Users, i \in ReviewIds, x \in Ratings \cup {NULL} :
          UpdateReview(u, i, x, FALSE, FALSE)
    \/ \E u \in Users, i \in ReviewIds : DeleteReview(u, i, FALSE, FALSE)
    \/ \E i \in ReviewIds : AdminDeleteReview(i, FALSE, FALSE)

SpecReviews == Init /\ [][NextReviews]_vars

\* The same, where the store write of a Product's aggregate may throw.
NextProductFault ==
    \/ \E u \in Users, p \in ProductIds : Purchase(u, p)
    \/ \E u \in Users, p \in ProductIds : ConfirmPurchase(u, p)
    \/ \E u \in Users, p \in ProductIds : CancelPurchase(u, p)
    \/ \E u \in Users, p \in ProductIds, x \in Ratings, pf \in BOOLEAN :
          CreateReview(u, p, x, pf, FALSE)
    \/ \E u \in Users, i \in ReviewIds, x \in Ratings \cup {NULL}, pf \in BOOLEAN :
          UpdateReview(u, i, x, pf, FALSE)
    \/ \E u \in Users, i \in ReviewIds, pf \in BOOLEAN : DeleteReview(u, i, pf, FALSE)
    \/ \E i \in ReviewIds, pf \in BOOLEAN : AdminDeleteReview(i, pf, FALSE)

SpecProductFault == Init /\ [][NextProductFault]_vars

\* The same, where the store write of a seller's aggregate may throw.
NextSellerFault ==
    \/ \E u \in Users, p \in ProductIds : Purchase(u, p)
    \/ \E u \in Users, p \in ProductIds : ConfirmPurchase(u, p)
    \/ \E u \in Users, p \in ProductIds : CancelPurchase(u, p)
    \/ \E u \in Users, p \in ProductIds, x \in Ratings, sf \in BOOLEAN :
          CreateReview(u, p, x, FALSE, sf)
    \/ \E u \in Users, i \in ReviewIds, x \in Ratings \cup {NULL}, sf \in BOOLEAN :
          UpdateReview(u, i, x, FALSE, sf)
    \/ \E u \in Users, i \in ReviewIds, sf \in BOOLEAN : DeleteReview(u, i, FALSE, sf)
    \/ \E i \in ReviewIds, sf \in BOOLEAN : AdminDeleteReview(i, FALSE, sf)

SpecSellerFault == Init /\ [][NextSellerFault]_vars

\* The author's review operations on sold Products, where the store write
\* of either aggregate, or of both, may throw.
NextRecompute ==
    \/ \E u \in Users, p \in ProductIds, x \in Ratings, pf, sf \in BOOLEAN :
          CreateReview(u, p, x, pf, sf)
    \/ \E u \in Users, i \in ReviewIds, x \in Ratings \cup {NULL}, pf, sf \in BOOLEAN :
          UpdateReview(u, i, x, pf, sf)
    \/ \E u \in Users, i \in ReviewIds, pf, sf \in BOOLEAN : DeleteReview(u, i, pf, sf)

SpecRecompute == InitSold /\ [][NextRecompute]_vars

\* Purchases, the admin's status route (which can put a sold Product back
\* on sale) and review create.
NextRelist ==
    \/ \E u \in Users, p \in ProductIds : Purchase(u, p)
    \/ \E p \in ProductIds, s \in AdminProductStatus : AdminSetStatus(p, s)
    \/ \E u \in Users, p \in ProductIds, x \in Ratings : CreateReview(u, p, x, FALSE, FALSE)

SpecRelist == Init /\ [][NextRelist]_vars

\* The order operations that the routes expose, one request at a time.
NextExposed ==
    \/ \E u \in Users, p \in ProductIds, f \in BOOLEAN : CreateOrder(u, p, f)
    \/ \E u \in Users, o \in OrderIds : Ship(u, o)
    \/ \E u \in Users, o \in OrderIds, f \in BOOLEAN : ConfirmDelivery(u, o, f)
    \/ \E u \in Users, o \in OrderIds, f \in BOOLEAN : CancelOrder(u, o, f)

SpecExposed == Init /\ [][NextExposed]_vars

\* Ship, confirm-delivery and cancel requests in flight together, on orders
\* created and confirmed one at a time.
NextOrderRace ==
    \/ \E u \in Users, p \in ProductIds : CreateOrder(u, p, FALSE)
    \/ \E o \in OrderIds : Confirm(o)
    \/ \E r \in ReqIds, op \in OrderOps, u \in Users, o \in OrderIds :
          StartOrderReq(r, op, u, o)
    \/ \E r \in ReqIds : OrderSave(r)
    \/ \E r \in ReqIds, f \in BOOLEAN : OrderMirror(r, f)

SpecOrderRace == Init /\ [][NextOrderRace]_vars

\* The order operations, the confirmation step and the seller's price
\* updates, over a store that never throws.
PriceBodies == {b \in Bodies : b.field = "price"}

NextAmount ==
    \/ \E u \in Users, p \in ProductIds : CreateOrder(u, p, FALSE)
    \/ \E o \in OrderIds : Confirm(o)
    \/ \E u \in Users, o \in OrderIds : Ship(u, o)
    \/ \E u \in Users, o \in OrderIds : ConfirmDelivery(u, o, FALSE)
    \/ \E u \in Users, o \in OrderIds : CancelOrder(u, o, FALSE)
    \/ \E u \in Users, p \in ProductIds, b \in PriceBodies : UpdateProduct(u, p, b)

SpecAmount == Init /\ [][NextAmount]_vars

\* The notification service and its routes.
NextInbox ==
    \/ \E u \in Users, t \in Now : AddNotification(u, t)
    \/ \E u \in Users, id \in NamedIds : MarkAsRead(u, id)
    \/ \E u \in Users : MarkAllAsRead(u)

SpecInbox == InitInbox /\ [][NextInbox]_vars

\* Review requests in flight together, on sold Products.
NextReviewRace ==
    \/ \E r \in ReqIds, u \in Users, p \in ProductIds, x \in Ratings :
          StartReviewReq(r, "create-review", u, p, x)
    \/ \E r \in ReqIds, u \in Users, i \in ReviewIds, x \in Ratings :
          StartReviewReq(r, "update-review", u, i, x)
    \/ \E r \in ReqIds, u \in Users, i \in ReviewIds :
          StartReviewReq(r, "delete-review", u, i, NULL)
    \/ \E r \in ReqIds : ProductRatingsFind(r)
    \/ \E r \in ReqIds : ProductRatingsUpdate(r)
    \/ \E r \in ReqIds : SellerRatingsFind(r)
    \/ \E r \in ReqIds : SellerRatingsUpdate(r)

SpecReviewRace == InitSold /\ [][NextReviewRace]_vars

\* Reviews of sold Products by the users there are, and the admin's
\* deletions of a review, a product and a user, over a store that never
\* throws.
NextAdmin ==
    \/ \E u \in users, p \in ProductIds, x \in Ratings : CreateReview(u, p, x, FALSE, FALSE)
    \/ \E i \in ReviewIds : AdminDeleteReview(i, FALSE, FALSE)
    \/ \E p \in ProductIds : AdminDeleteProduct(p)
    \/ \E u \in Users : DeleteUser(u)
    \/ \E u \in Users : AdminDeleteUser(u)

SpecAdmin == InitSold /\ [][NextAdmin]_vars

\* Commit requests in flight together.
NextRace ==
    \/ \E r \in ReqIds, op \in {"purchase", "create-order"}, u \in Users, p \in ProductIds :
          StartCommit(r, op, u, p)
    \/ \E r \in ReqIds : PurchaseCommit(r)
    \/ \E r \in ReqIds : CreateOrderSave(r)
    \/ \E r \in ReqIds, f \in BOOLEAN : CreateOrderMark(r, f)

SpecRace == Init /\ [][NextRace]_vars

\* Every operation, one request at a time.
Next == NextFlow \/ NextDelete \/ NextUpdate

Spec == Init /\ [][Next]_vars

\* ------------------------------------------------------------------ error kinds
\* The kinds of the error taxonomy as the handlers signal them: an entity
\* that is not in the state a transition needs is answered with status 400
\* and one of these messages.
ConflictMessages ==
    {"Product is not available for purchase", "Product is not available",
     "Product is not in pending status", "Cannot delete a sold or pending product",
     "Order must be confirmed before shipping",
     "Order must be shipped before delivery confirmation", "Cannot cancel this order",
     "You can only review completed purchases", "You have already reviewed this product"}

Conflict(r) == r.code = 400 /\ r.msg \in ConflictMessages

Forbidden(r) == r.code = 403

Succeeded(r) == r.code \in {200, 201}

Held(status) == status \in {"pending", "sold"}

\* ------------------------------------------------------------------ C1
\* C1: in every state reached by listing and order operations, each Product
\* has a buyerId if and only if its status is pending or sold.
BuyerIffHeld ==
    \A p \in ProductIds :
        products[p].exists =>
            ((products[p].buyerId # NULL) <=> Held(products[p].status))

\* ------------------------------------------------------------------ C2
\* C2: of the commit requests (purchase, order create) that different buyers
\* issue on one available Product with their steps interleaved, at most one
\* succeeds.
OneCommitPerProduct ==
    \A r1, r2 \in ReqIds :
        (/\ r1 # r2
         /\ reqs[r1].pc = "done" /\ reqs[r2].pc = "done"
         /\ reqs[r1].id = reqs[r2].id
         /\ reqs[r1].caller # reqs[r2].caller)
        => ~(Succeeded(reqs[r1]) /\ Succeeded(reqs[r2]))

\* ------------------------------------------------------------------ C3
IsStep(op) == resp'.op = op

\* C3: a purchase of a Product whose status is not available fails with
\* Conflict, whoever the caller is, and leaves every Product as it was.
PurchaseUnavailableRejected ==
    [][(IsStep("purchase") /\ products[resp'.id].exists
            /\ products[resp'.id].status # "available")
        => (Conflict(resp') /\ products' = products)]_vars

\* a purchase was rejected on a pending or sold Product
PurchaseUnavailableSeen ==
    /\ resp.op = "purchase"
    /\ Conflict(resp)
    /\ Held(products[resp.id].status)

\* ------------------------------------------------------------------ C4
\* C4: after any sequence of operations no Product has its seller as buyer
\* and no Order has its seller as buyer.
NoSelfDealing ==
    /\ \A p \in ProductIds :
          products[p].exists => products[p].buyerId # products[p].sellerId
    /\ \A o \in 1..Len(orders) : orders[o].buyerId # orders[o].sellerId

\* ------------------------------------------------------------------ C5
\* C5 as stated: confirm-purchase makes the Product sold only from pending
\* and for its buyer; it fails with Conflict whenever the status is not
\* pending and with Forbidden whenever the caller is not the buyer, the
\* Product unchanged in both.
ConfirmPurchaseAsStated ==
    [][(IsStep("confirm-purchase") /\ products[resp'.id].exists) =>
        LET p == resp'.id
            doc == products[p]
        IN  /\ products' # products =>
                    /\ doc.status = "pending" /\ doc.buyerId = resp'.caller
                    /\ products' = [products EXCEPT ![p].status = "sold"]
            /\ doc.status # "pending" => (Conflict(resp') /\ products' = products)
            /\ doc.buyerId # resp'.caller => (Forbidden(resp') /\ products' = products)
      ]_vars

\* C5 as amended: confirm-purchase makes the Product sold exactly when the
\* caller is its buyer and its status is pending; it fails with Forbidden
\* whenever the caller is not the buyer, and with Conflict whenever the
\* caller is the buyer and the status is not pending, the Product unchanged
\* in both.
ConfirmPurchaseContract ==
    [][(IsStep("confirm-purchase") /\ products[resp'.id].exists) =>
        LET p == resp'.id
            doc == products[p]
        IN  /\ (doc.buyerId = resp'.caller /\ doc.status = "pending") =>
                    /\ Succeeded(resp')
                    /\ products' = [products EXCEPT ![p].status = "sold"]
            /\ doc.buyerId # resp'.caller => (Forbidden(resp') /\ products' = products)
            /\ (doc.buyerId = resp'.caller /\ doc.status # "pending") =>
                    (Conflict(resp') /\ products' = products)
      ]_vars

\* the buyer's confirm-purchase was rejected with Conflict on a Product
\* that is not pending
ConfirmPurchaseConflictSeen ==
    /\ resp.op = "confirm-purchase"
    /\ Conflict(resp)
    /\ products[resp.id].buyerId = resp.caller
    /\ products[resp.id].status # "pending"

\* ------------------------------------------------------------------ C6
\* C6 as stated: cancel-purchase succeeds only from pending and for the
\* buyer or the seller, making the Product available with no buyer; when
\* the status is not pending it fails with Conflict, the Product unchanged.
CancelPurchaseAsStated ==
    [][(IsStep("cancel-purchase") /\ products[resp'.id].exists) =>
        LET p == resp'.id
            doc == products[p]
        IN  /\ Succeeded(resp') =>
                    /\ doc.status = "pending"
                    /\ resp'.caller \in {doc.buyerId, doc.sellerId}
                    /\ products' = [products EXCEPT ![p].status = "available",
                                                    ![p].buyerId = NULL]
            /\ doc.status # "pending" => (Conflict(resp') /\ products' = products)
      ]_vars

\* C6 as amended: cancel-purchase succeeds only from pending and for the
\* buyer or the seller, making the Product available with no buyer; when
\* the status is not pending and the caller is the buyer or the seller it
\* fails with Conflict, and a caller who is neither fails with Forbidden,
\* the Product unchanged in both.
CancelPurchaseContract ==
    [][(IsStep("cancel-purchase") /\ products[resp'.id].exists) =>
        LET p == resp'.id
            doc == products[p]
            party == resp'.caller \in {doc.buyerId, doc.sellerId}
        IN  /\ Succeeded(resp') =>
                    /\ doc.status = "pending"
                    /\ party
                    /\ products' = [products EXCEPT ![p].status = "available",
                                                    ![p].buyerId = NULL]
            /\ ~Succeeded(resp') => products' = products
            /\ (party /\ doc.status = "pending") => Succeeded(resp')
            /\ (party /\ doc.status # "pending") => Conflict(resp')
            /\ ~party => Forbidden(resp')
      ]_vars

\* the buyer has cancelled a pending purchase: the Product is available
\* again and the reply is a success
CancelPurchaseSeen ==
    /\ resp.op = "cancel-purchase"
    /\ Succeeded(resp)
    /\ resp.caller # products[resp.id].sellerId
    /\ products[resp.id].status = "available"

\* ------------------------------------------------------------------ C7
DeleteOps == {"delete-product", "delete-product-ctl", "admin-delete-product"}

\* C7: a Product is removed only while its status is available; a delete
\* attempted on a pending or sold Product fails (with Conflict when its
\* owner asks) and the Product and the reviews remain.
DeleteOnlyAvailable ==
    [][/\ \A p \in ProductIds :
            (products[p].exists /\ ~products'[p].exists)
                => products[p].status = "available"
       /\ (resp'.op \in DeleteOps /\ products[resp'.id].exists
               /\ Held(products[resp'.id].status))
           => /\ ~Succeeded(resp')
              /\ resp'.caller = products[resp'.id].sellerId => Conflict(resp')
              /\ products' = products
              /\ reviews' = reviews
      ]_vars

\* ------------------------------------------------------------------ C8
\* C8: order create succeeds only on an available Product and for a caller
\* who is not its seller; on success the new Order is pending and escrowed
\* with the caller as buyer, the Product's seller and price, and the
\* Product is pending; on failure no Order is created and the Product is
\* unchanged.
CreateOrderContract ==
    [][IsStep("create-order") =>
        LET p == resp'.id
            doc == products[p]
            by == resp'.caller
        IN  /\ Succeeded(resp') =>
                    /\ doc.exists /\ doc.status = "available" /\ by # doc.sellerId
                    /\ orders' = Append(orders,
                                        [productId |-> p, buyerId |-> by,
                                         sellerId |-> doc.sellerId, amount |-> doc.price,
                                         status |-> "pending",
                                         paymentStatus |-> "escrowed"])
                    /\ products'[p].status = "pending"
            /\ ~Succeeded(resp') => (orders' = orders /\ products' = products)
      ]_vars

\* ------------------------------------------------------------------ C9
\* C9: when confirm-delivery reports success the Order is completed and
\* released and its Product sold; when it does not, it does not leave the
\* Order completed and released with the Product not sold.
ConfirmDeliveryAllOrNothing ==
    (resp.op = "confirm-delivery" /\ OrderExists(resp.id)) =>
        LET o == orders[resp.id]
            settled == o.status = "completed" /\ o.paymentStatus = "released"
            sold == products[o.productId].status = "sold"
        IN  /\ Succeeded(resp) => (settled /\ sold)
            /\ ~Succeeded(resp) => ~(settled /\ ~sold)

\* ------------------------------------------------------------------ C10
\* C10: after a successful cancel of a pending Order the Order is cancelled
\* and refunded and its Product is available with no buyer.
CancelOrderRestores ==
    (resp.op = "cancel-order" /\ Succeeded(resp)) =>
        LET o == orders[resp.id]
            prod == products[o.productId]
        IN  /\ o.status = "cancelled" /\ o.paymentStatus = "refunded"
            /\ prod.status = "available" /\ prod.buyerId = NULL


\* ------------------------------------------------------------------ C11
\* C11: in every state, also those reached while ship, confirm-delivery and
\* cancel requests on one Order interleave, every Order whose paymentStatus
\* is released is completed and every Order whose paymentStatus is refunded
\* is cancelled.
PaymentFollowsStatus ==
    \A o \in 1..Len(orders) :
        /\ orders[o].paymentStatus = "released" => orders[o].status = "completed"
        /\ orders[o].paymentStatus = "refunded" => orders[o].status = "cancelled"

\* ------------------------------------------------------------------ C12
Terminal(status) == status \in {"completed", "cancelled"}

ExposedOrdersNeverAdvance ==
    /\ \A o \in 1..Len(orders) :
          /\ orders[o].status \in {"pending", "cancelled"}
          /\ orders[o].paymentStatus \in {"escrowed", "refunded"}
    /\ resp.op \in {"ship", "confirm-delivery"} => ~Succeeded(resp)

\* the seller's ship request on their pending Order was rejected
ShipPendingRejectedSeen ==
    /\ resp.op = "ship"
    /\ OrderExists(resp.id)
    /\ resp.caller = orders[resp.id].sellerId
    /\ orders[resp.id].status = "pending"
    /\ Conflict(resp)

\* ------------------------------------------------------------------ C14
\* C14: ship sets an Order's status to shipped exactly when the caller is
\* the Order's seller and the Order is confirmed, and changes nothing else
\* of the Order and no Product; any other caller fails with Forbidden, and a
\* request on an Order in another status fails, the Order unchanged in both.
ShipContract ==
    [][(IsStep("ship") /\ OrderExists(resp'.id)) =>
        LET o == resp'.id
            doc == orders[o]
            legal == resp'.caller = doc.sellerId /\ doc.status = "confirmed"
        IN  /\ legal => /\ Succeeded(resp')
                        /\ orders' = [orders EXCEPT ![o].status = "shipped"]
            /\ ~legal => (~Succeeded(resp') /\ orders' = orders)
            /\ resp'.caller # doc.sellerId => Forbidden(resp')
            /\ products' = products
      ]_vars

\* the seller has shipped a confirmed Order
ShippedSeen ==
    /\ resp.op = "ship"
    /\ Succeeded(resp)
    /\ orders[resp.id].status = "shipped"
    /\ orders[resp.id].paymentStatus = "escrowed"

\* ------------------------------------------------------------------ C15
\* the stored aggregate a is the count and the mean of the reviews rs
\* (average 0 when there are none)
IsAggregateOf(a, rs) ==
    /\ a.count = Cardinality(rs)
    /\ rs = {} => a.average = <<0, 1>>
    /\ rs # {} => a.average[1] * Cardinality(rs) = TotalRating(rs) * a.average[2]

\* C15: after any sequence of review create, update and delete requests,
\* every Product's ratings are the count and the mean rating of the Reviews
\* of that Product (0 and 0 when it has none).
ProductRatingsMatchReviews ==
    \A p \in ProductIds :
        products[p].exists =>
            IsAggregateOf(productRatings[p], {rv \in reviews : rv.productId = p})

\* ------------------------------------------------------------------ C16
\* C16: after any sequence of review create, update and delete requests,
\* every seller's ratings are the count and the mean rating of the Reviews
\* whose sellerId is that seller (0 and 0 when there are none).
SellerRatingsMatchReviews ==
    \A u \in Users :
        IsAggregateOf(sellerRatings[u], {rv \in reviews : rv.sellerId = u})

\* ------------------------------------------------------------------ C17
OneReviewPerPair(revs) ==
    \A r1, r2 \in revs :
        (r1.productId = r2.productId /\ r1.userId = r2.userId) => r1 = r2

\* C17 as stated: there is at most one Review per (productId, userId), and
\* a review create for a pair that has one fails with Conflict and leaves
\* the reviews and both aggregates as they are.
SecondReviewAsStated ==
    [][/\ OneReviewPerPair(reviews')
       /\ (IsStep("create-review") /\ HasReviewed(reviews, resp'.id, resp'.caller)) =>
            /\ Conflict(resp')
            /\ reviews' = reviews
            /\ UNCHANGED ratings
      ]_vars

\* C17 as amended: there is at most one Review per (productId, userId), and
\* a review create for a pair that has one fails and leaves the reviews and
\* both aggregates as they are: with Conflict while the caller is still the
\* Product's buyer, with Forbidden once the Product has another buyer.
SecondReviewRejected ==
    [][/\ OneReviewPerPair(reviews')
       /\ (IsStep("create-review") /\ HasReviewed(reviews, resp'.id, resp'.caller)) =>
            /\ products[resp'.id].buyerId = resp'.caller => Conflict(resp')
            /\ products[resp'.id].buyerId # resp'.caller => Forbidden(resp')
            /\ reviews' = reviews
            /\ UNCHANGED ratings
      ]_vars

\* a reviewer's second create was rejected with Forbidden: the Product has
\* been put back on sale and bought by someone else
SecondReviewForbiddenSeen ==
    /\ resp.op = "create-review"
    /\ Forbidden(resp)
    /\ HasReviewed(reviews, resp.id, resp.caller)
    /\ products[resp.id].buyerId \notin {NULL, resp.caller}

\* ------------------------------------------------------------------ C18
\* C18: a Review is created only for a sold Product and by its buyer, with
\* the Product's seller as sellerId; a create by anyone else, or on an
\* available or pending Product, fails and creates nothing.
ReviewOnlyByBuyerOfSold ==
    [][(IsStep("create-review") /\ products[resp'.id].exists) =>
        LET p == resp'.id
            doc == products[p]
            by == resp'.caller
        IN  /\ reviews' # reviews =>
                    /\ doc.status = "sold" /\ doc.buyerId = by
                    /\ \E rv \in reviews' :
                          /\ reviews' = reviews \cup {rv}
                          /\ rv.productId = p /\ rv.userId = by
                          /\ rv.sellerId = doc.sellerId
            /\ (doc.buyerId # by \/ doc.status \in {"available", "pending"}) =>
                    /\ resp'.code \in {400, 403}
                    /\ reviews' = reviews
                    /\ UNCHANGED ratings
      ]_vars

\* the buyer of a sold Product has reviewed it
ReviewCreatedSeen ==
    /\ resp.op = "create-review"
    /\ Succeeded(resp)
    /\ products[resp.id].status = "sold"
    /\ \E rv \in reviews : rv.productId = resp.id /\ rv.userId = resp.caller

\* ------------------------------------------------------------------ C19
ReviewOps == {"update-review", "delete-review"}

FourOnce == [average |-> <<4, 1>>, count |-> 1]

\* C20: the listing scenario, step by step.  A purchase by B of an
\* available Product P of another seller S makes P pending with buyer B;
\* B's confirm-purchase then makes P sold; B's first Review of P, rating 4,
\* when P and S have no Review yet, is accepted and makes the ratings of P
\* and of S average 4, count 1; B's second Review of P is rejected with
\* Conflict.
ListingScenario ==
    [][LET p == resp'.id
           b == resp'.caller
           doc == products[p]
       IN  /\ (IsStep("purchase") /\ doc.status = "available" /\ b # doc.sellerId) =>
                  /\ Succeeded(resp')
                  /\ products'[p].status = "pending" /\ products'[p].buyerId = b
           /\ (IsStep("confirm-purchase") /\ doc.status = "pending" /\ doc.buyerId = b) =>
                  /\ Succeeded(resp')
                  /\ products'[p].status = "sold" /\ products'[p].buyerId = b
           /\ (IsStep("create-review") /\ doc.status = "sold" /\ doc.buyerId = b
                   /\ ~\E rv \in reviews : rv.productId = p \/ rv.sellerId = doc.sellerId) =>
                  /\ Succeeded(resp')
                  /\ \A rv \in reviews' \ reviews :
                        rv.rating = 4 => /\ productRatings'[p] = FourOnce
                                         /\ sellerRatings'[doc.sellerId] = FourOnce
           /\ (IsStep("create-review") /\ doc.status = "sold" /\ doc.buyerId = b
                   /\ HasReviewed(reviews, p, b)) =>
                  /\ Conflict(resp')
                  /\ reviews' = reviews
      ]_vars

\* the end of the scenario: B's second Review of the sold Product was
\* rejected with Conflict, and the Product and its seller are rated 4, once
ScenarioEndSeen ==
    /\ resp.op = "create-review"
    /\ Conflict(resp)
    /\ products[resp.id].status = "sold"
    /\ products[resp.id].buyerId = resp.caller
    /\ HasReviewed(reviews, resp.id, resp.caller)
    /\ productRatings[resp.id] = FourOnce
    /\ sellerRatings[products[resp.id].sellerId] = FourOnce


\* ------------------------------------------------------------------ C21
UpdateOps == {"update-product", "update-product-ctl"}

\* C21: the seller's product update leaves the Product's status and buyerId
\* as they are, whatever the request body holds.
UpdateKeepsStatusAndBuyer ==
    [][resp'.op \in UpdateOps =>
          /\ products'[resp'.id].status = products[resp'.id].status
          /\ products'[resp'.id].buyerId = products[resp'.id].buyerId
      ]_vars

\* ------------------------------------------------------------------ C22
\* C22: an Order's amount is the Product's price at the moment the Order is
\* created, and no later operation (a price update of the Product, ship,
\* confirm-delivery, cancel) changes it.
AmountFrozen ==
    [][/\ \A o \in 1..Len(orders) : orders'[o].amount = orders[o].amount
       /\ Len(orders') > Len(orders) =>
            LET new == orders'[Len(orders')] IN
            new.amount = products[new.productId].price
      ]_vars

\* an Order was completed whose amount is no longer the price of its
\* Product: the price was updated after the Order was created
AmountDiffersSeen ==
    /\ resp.op = "confirm-delivery"
    /\ Succeeded(resp)
    /\ orders[resp.id].status = "completed"
    /\ orders[resp.id].amount # products[orders[resp.id].productId].price

\* ------------------------------------------------------------------ C23
AuthorReviewOps == {"create-review", "update-review", "delete-review"}

\* the reviews in which revs1 and revs2 differ
Touched(revs1, revs2) == (revs1 \ revs2) \cup (revs2 \ revs1)

\* C23: a review create, rating update or delete reports success only when
\* both recomputations have completed: the ratings of the Product and of the
\* seller of the Review written are then the aggregates of the new Review
\* set.  When a recomputation fails the reply is an error and the Review
\* write stays: the created Review is stored, the deleted one is gone, the
\* updated one differs from before in its rating at most.
RecomputedBeforeSuccess ==
    [][resp'.op \in AuthorReviewOps =>
        /\ Succeeded(resp') =>
              \A rv \in Touched(reviews, reviews') :
                  /\ productRatings'[rv.productId] =
                         Aggregate({x \in reviews' : x.productId = rv.productId})
                  /\ sellerRatings'[rv.sellerId] =
                         Aggregate({x \in reviews' : x.sellerId = rv.sellerId})
        /\ (\E rv \in Touched(reviews, reviews') :
                \/ productRatings'[rv.productId] #
                       Aggregate({x \in reviews' : x.productId = rv.productId})
                \/ sellerRatings'[rv.sellerId] #
                       Aggregate({x \in reviews' : x.sellerId = rv.sellerId}))
              => resp'.code = 500
        /\ resp'.code = 500 =>
              CASE resp'.op = "create-review" ->
                     \E rv \in reviews' \ reviews :
                         /\ reviews' = reviews \cup {rv}
                         /\ rv.productId = resp'.id /\ rv.userId = resp'.caller
                [] resp'.op = "delete-review" ->
                     \E rv \in reviews :
                         rv.id = resp'.id /\ reviews' = reviews \ {rv}
                [] OTHER ->
                     \E rv \in reviews, x \in Ratings :
                         /\ rv.id = resp'.id
                         /\ reviews' = (reviews \ {rv}) \cup {[rv EXCEPT !.rating = x]}
      ]_vars

\* a review create was answered with an error after the Product's
\* recomputation had completed and the seller's had failed: the Review is
\* stored, the Product's ratings count it, the seller's do not
ErrorKeptReviewSeen ==
    /\ resp.op = "create-review"
    /\ resp.code = 500
    /\ HasReviewed(reviews, resp.id, resp.caller)
    /\ productRatings[resp.id] = Aggregate({x \in reviews : x.productId = resp.id})
    /\ LET s == products[resp.id].sellerId IN
       sellerRatings[s] # Aggregate({x \in reviews : x.sellerId = s})

\* ------------------------------------------------------------------ C24
\* the newest k entries of a sequence
Newest(seq, k) ==
    IF Len(seq) > k THEN SubSeq(seq, Len(seq) - k + 1, Len(seq)) ELSE seq

\* C24: after every addNotification call the store holds at most 100
\* notifications of each user, and the notifications of the user notified
\* are the newest 100 of those held before with the new one: the ones
\* removed are that user's oldest.
NewestHundredKept ==
    [][/\ \A u \in Users : Len(OfUser(notifications', u)) <= MaxPerUser
       /\ IsStep("add-notification") =>
            LET u == resp'.caller
                all == Append(OfUser(notifications, u), NewNotification(resp'.id, u))
            IN  OfUser(notifications', u) = Newest(all, MaxPerUser)
      ]_vars

\* a user at the limit was notified: the user holds 100 notifications, the
\* first of the backlog is no longer among them and the new one is the last
EvictionSeen ==
    /\ resp.op = "add-notification"
    /\ LET mine == OfUser(notifications, resp.caller) IN
       /\ Len(mine) = MaxPerUser
       /\ mine[1].id # resp.caller
       /\ mine[MaxPerUser].id = resp.id

\* ------------------------------------------------------------------ C30
ReadOps == {"mark-read", "mark-all-read"}

\* C30: addNotification for a user leaves the notifications of every other
\* user as they are, also when it removes old ones; markAsRead and
\* markAllAsRead of a user set the read flag of that user's notifications
\* only and change nothing else; markAllAsRead leaves all of the user's
\* read; markAsRead succeeds exactly when a notification with the id
\* belongs to the user, and otherwise reports that there is none and changes
\* nothing.
InboxIsolation ==
    [][LET u == resp'.caller
           owns == \E i \in 1..Len(notifications) :
                       notifications[i].id = resp'.id /\ notifications[i].userId = u
       IN  /\ IsStep("add-notification") =>
                 \A v \in Users \ {u} :
                     OfUser(notifications', v) = OfUser(notifications, v)
           /\ resp'.op \in ReadOps =>
                 /\ Len(notifications') = Len(notifications)
                 /\ \A i \in 1..Len(notifications) :
                       notifications'[i] # notifications[i] =>
                           /\ notifications[i].userId = u
                           /\ notifications'[i] = [notifications[i] EXCEPT !.read = TRUE]
           /\ IsStep("mark-all-read") =>
                 \A i \in 1..Len(notifications) :
                     notifications[i].userId = u => notifications'[i].read
           /\ IsStep("mark-read") =>
                 /\ owns <=> Succeeded(resp')
                 /\ ~owns => (resp'.code = 404 /\ notifications' = notifications)
                 /\ owns => \E i \in 1..Len(notifications) :
                               /\ notifications[i].id = resp'.id
                               /\ notifications[i].userId = u
                               /\ notifications'[i].read
      ]_vars

\* a user's markAsRead with the id of another user's notification was
\* answered with not found, in a store from which old notifications have
\* been removed; that notification is still unread
ForeignIdRejectedSeen ==
    /\ resp.op = "mark-read"
    /\ resp.code = 404
    /\ Len(notifications) > MaxPerUser * NumUsers - NumUsers
    /\ sent = MaxSent
    /\ \E i \in 1..Len(notifications) :
          /\ notifications[i].id = resp.id
          /\ notifications[i].userId # resp.caller
          /\ ~notifications[i].read
    /\ \E v \in Users :
          /\ Len(OfUser(notifications, v)) = MaxPerUser
          /\ OfUser(notifications, v)[1].id # v

\* ------------------------------------------------------------------ C25
\* C25: in every state reached by listing and order operations, each
\* Product has at most one Order that is neither completed nor cancelled.
OneOpenOrderPerProduct ==
    \A o1, o2 \in 1..Len(orders) :
        (/\ orders[o1].productId = orders[o2].productId
         /\ ~Terminal(orders[o1].status)
         /\ ~Terminal(orders[o2].status))
        => o1 = o2

\* ------------------------------------------------------------------ C26
\* C26: in every state reached by listing and order operations, the Product
\* of a pending, confirmed or shipped Order is pending and the Product of a
\* completed Order is sold.
OrderMirroredOnProduct ==
    \A o \in 1..Len(orders) :
        LET prod == products[orders[o].productId] IN
        /\ orders[o].status \in {"pending", "confirmed", "shipped"} =>
              prod.status = "pending"
        /\ orders[o].status = "completed" => prod.status = "sold"

\* ------------------------------------------------------------------ C27
\* C27: once a Product is sold, no listing or order operation changes its
\* status or its buyerId.
SoldStays ==
    [][\A p \in ProductIds :
          (products[p].exists /\ products[p].status = "sold") =>
              /\ products'[p].status = "sold"
              /\ products'[p].buyerId = products[p].buyerId
      ]_vars

\* ------------------------------------------------------------------ C28
\* no request is in flight
Quiescent == \A r \in ReqIds : reqs[r].pc \in {"idle", "done"}

\* C28: when the review requests that ran with their steps interleaved
\* have all completed, the ratings of every Product and of every seller are
\* the count and the mean of the Reviews then stored for it.
RatingsMatchWhenQuiescent ==
    Quiescent => (ProductRatingsMatchReviews /\ SellerRatingsMatchReviews)

\* ------------------------------------------------------------------ C29
AdminDeleteOps ==
    {"admin-delete-review", "admin-delete-product", "delete-user", "admin-delete-user"}

\* C29: after an admin's deletion of a review, a product or a user, the
\* ratings of every Product that remains and of every User that remains are
\* the count and the mean of the Reviews that remain for it.
RatingsMatchAfterAdminDelete ==
    (resp.op \in AdminDeleteOps /\ Succeeded(resp)) =>
        /\ ProductRatingsMatchReviews
        /\ \A u \in users :
              IsAggregateOf(sellerRatings[u], {rv \in reviews : rv.sellerId = u})
=============================================================================
